---- MODULE Spec2Model ----
(***************************************************************************)
(* Model of the nxp_simtemp driver (src/kernel/nxp_simtemp.c): the ring    *)
(* buffer, the hrtimer callback that produces samples, the read and poll   *)
(* file operations with their wait queue, and the platform remove path.    *)
(*                                                                         *)
(* Every spin_lock_irqsave critical section is split at the acquisition    *)
(* and inside the body where the source has more than one store, so that   *)
(* the lock itself, and not the atomicity of an action, is what keeps the  *)
(* critical sections apart.                                                *)
(***************************************************************************)
EXTENDS Integers, Naturals, Sequences, FiniteSets, TLC

(***************************************************************************)
(* Bounds of the model.                                                    *)
(***************************************************************************)
\* log2 of the modelled ring size (the driver is built with 64 = 2^6 slots)
RingBits == 2
\* number of reader tasks holding an open handle
NumReaders == 2
\* number of timer expiries explored
MaxTicks == 5
\* number of reads whose copy_to_user fails
MaxFaults == 1
\* width in bits of the machine word that stands for the 32-bit types u32 and
\* s32 (2^32 is beyond the integers TLC computes with); the default
\* configuration fits in it with room to spare
WordBits == 20

(***************************************************************************)
(* Program constants.                                                      *)
(***************************************************************************)
RING_BUFFER_SIZE == 2 ^ RingBits
SIMTEMP_FLAG_NEW_SAMPLE == 1
SIMTEMP_FLAG_THRESHOLD_EXCEEDED == 2
SampleSize == 16
DefaultSamplingMs == 100
DefaultThreshold == 45000
DefaultBaseTemp == 35000
DefaultVariation == 10000
NsPerMs == 1000000

Readers == 1 .. NumReaders
NULL == "NULL"
\* the value of `interrupted` for a processor that runs none of the readers
NoReader == 0
Dev == "dev"

\* identities of the execution contexts that take the ring buffer lock
TimerCtx == <<"timer">>
ReaderCtx(r) == <<"reader", r>>

\* errno values returned by the file operations
EAGAIN == 11
EINVAL == 22
ENODEV == 19
EFAULT == 14
ERESTARTSYS == 512

\* poll masks: POLLIN | POLLRDNORM, and POLLERR
POLLIN_RDNORM == 65
POLLERR == 8
EINTR == 4

VARIABLES
    samples, head, tail, lock,
    sampling_ms, threshold_mC, base_temp_mC, temp_variation_mC, timer_interval,
    wait_queue,
    timer_active, expires, now, timer_pc, timer_sample, interrupted,
    simtemp_dev, registered, dev_freed, remove_pc, probe_pc,
    f_nonblock, private_data, fd_open,
    pc, sample, ret, wq_int, task_state, signal_pending, triggered, at_stop,
    taken, cancelled, readable,
    produced, delivered, dropped, lost, uaf, signals

\* History variables, written by the actions and read only by the properties:
\*   taken[r]     records the current system call of r has dequeued
\*   cancelled[r] r was signalled while asleep in read on the empty buffer
\*   signals      wake-ups issued by the timer callback
\*   at_stop[r]   position of r's current call relative to simtemp_remove
\*   readable[r]  r's last poll pass reported POLLIN and r has made no get since
\* interrupted is the task on whose processor the timer interrupt was last
\* taken (NoReader: a processor running none of the readers).
ring == <<samples, head, tail>>
config == <<sampling_ms, threshold_mC, base_temp_mC, temp_variation_mC, timer_interval>>
timer == <<timer_active, expires, now, timer_pc, timer_sample, interrupted>>
lifecycle == <<simtemp_dev, registered, dev_freed, remove_pc, probe_pc>>
handles == <<f_nonblock, private_data, fd_open>>
tasks == <<pc, sample, ret, wq_int, task_state, signal_pending, triggered, at_stop,
           taken, cancelled, readable>>
history == <<produced, delivered, dropped, lost, uaf, signals>>

vars == <<samples, head, tail, lock,
          sampling_ms, threshold_mC, base_temp_mC, temp_variation_mC, timer_interval,
          wait_queue,
          timer_active, expires, now, timer_pc, timer_sample, interrupted,
          simtemp_dev, registered, dev_freed, remove_pc, probe_pc,
          f_nonblock, private_data, fd_open,
          pc, sample, ret, wq_int, task_state, signal_pending, triggered, at_stop,
          taken, cancelled, readable,
          produced, delivered, dropped, lost, uaf, signals>>

(***************************************************************************)
(* struct simtemp_sample                                                   *)
(***************************************************************************)
simtemp_sample(ts, temp, flags) ==
    [timestamp_ns |-> ts, temp_mC |-> temp, flags |-> flags]

\* the all-zero record left in every slot by memset in ring_buffer_init
ZeroSample == simtemp_sample(0, 0, 0)

(***************************************************************************)
(* Bitwise and of two naturals, as the C operator & computes it.           *)
(***************************************************************************)
RECURSIVE BitAnd(_, _)
BitAnd(a, b) ==
    IF a = 0 \/ b = 0 THEN 0
    ELSE (IF a % 2 = 1 /\ b % 2 = 1 THEN 1 ELSE 0) + 2 * BitAnd(a \div 2, b \div 2)

\* the index advanced without the mask
NextIndex_NoWrap(i) == i + 1

\* (i + 1) & (RING_BUFFER_SIZE - 1)
NextIndex(i) == BitAnd(i + 1, RING_BUFFER_SIZE - 1)

\* ring_buffer_is_empty reporting the last record held as absent
ring_buffer_is_empty_one_left == (head - tail) % RING_BUFFER_SIZE <= 1

ring_buffer_is_empty == head = tail

ring_buffer_is_full == NextIndex(head) = tail

(***************************************************************************)
(* Machine arithmetic: a value stored in an unsigned word is reduced       *)
(* modulo 2^WordBits, a value stored in a signed word is the two's         *)
(* complement reading of that (the kernel is built with wrapping signed    *)
(* arithmetic).                                                            *)
(***************************************************************************)
Word == 2 ^ WordBits

IntMax == (Word \div 2) - 1

ToU(x) == x % Word

ToS(x) == IF x % Word > IntMax THEN (x % Word) - Word ELSE x % Word

\* simtemp_generate_sample with the threshold compared by >= instead of >
simtemp_generate_sample_ge(ts, random_val) ==
    LET variation == ToS(ToU(ToS(random_val % ToU(2 * temp_variation_mC + 1)))
                           - temp_variation_mC)
        temp == ToS(base_temp_mC + variation)
        flags == IF temp >= threshold_mC
                 THEN SIMTEMP_FLAG_NEW_SAMPLE + SIMTEMP_FLAG_THRESHOLD_EXCEEDED
                 ELSE SIMTEMP_FLAG_NEW_SAMPLE
    IN simtemp_sample(ts, temp, flags)

(***************************************************************************)
(* simtemp_generate_sample: the record built from the clock value and the  *)
(* random word the callback draws.  2 * temp_variation_mC + 1 and the      *)
(* remainder are unsigned; the difference with the unsigned                *)
(* temp_variation_mC is computed unsigned and stored in the signed         *)
(* variation; the sum with base_temp_mC is signed.                         *)
(***************************************************************************)
simtemp_generate_sample(ts, random_val) ==
    LET variation == ToS(ToU(ToS(random_val % ToU(2 * temp_variation_mC + 1)))
                           - temp_variation_mC)
        temp == ToS(base_temp_mC + variation)
        flags == IF temp > threshold_mC
                 THEN SIMTEMP_FLAG_NEW_SAMPLE + SIMTEMP_FLAG_THRESHOLD_EXCEEDED
                 ELSE SIMTEMP_FLAG_NEW_SAMPLE
    IN simtemp_sample(ts, temp, flags)

(***************************************************************************)
(* wake_up_interruptible(&dev->wait_queue): every queued task that sleeps  *)
(* interruptibly becomes runnable.  A wait_event entry is removed by its   *)
(* autoremove wake function when the wake-up succeeded; a poll entry stays *)
(* queued and is marked triggered.                                         *)
(***************************************************************************)
PollPcs == {"poll_wait", "poll_check", "poll_done", "poll_sleep", "poll_final"}

\* the task sleeps in schedule(), inside read or inside poll
Suspended(r) ==
    /\ pc[r] \in {"schedule", "poll_sleep"}
    /\ task_state[r] = "INTERRUPTIBLE"

Woken(q) == {r \in q : task_state[r] = "INTERRUPTIBLE"}

wake_up_interruptible ==
    /\ task_state' = [r \in Readers |->
                        IF r \in Woken(wait_queue) THEN "RUNNING" ELSE task_state[r]]
    /\ triggered' = [r \in Readers |->
                        IF r \in wait_queue /\ pc[r] \in PollPcs THEN TRUE ELSE triggered[r]]
    /\ wait_queue' = {r \in wait_queue : pc[r] \in PollPcs \/ r \notin Woken(wait_queue)}

\* hrtimer_forward restarting the period at the time of the call
hrtimer_forward_from_now(exp, t, interval) == t + interval

(***************************************************************************)
(* hrtimer_forward_now(timer, interval): the expiry moves forward by whole *)
(* intervals until it lies after the current time.                         *)
(***************************************************************************)
hrtimer_forward(exp, t, interval) ==
    IF t < exp THEN exp
    ELSE exp + interval * (((t - exp) \div interval) + 1)

(***************************************************************************)
(* A dereference of the device structure; after the structure has been     *)
(* released the access is recorded as a use after free.                    *)
(***************************************************************************)
TouchDev == uaf' = (uaf \/ dev_freed)

(***************************************************************************)
(* simtemp_timer_callback                                                  *)
(***************************************************************************)
\* the timer interrupt taken also by a processor whose task holds the lock,
\* as it would be if the lock were taken with spin_lock instead of
\* spin_lock_irqsave
TimerFireOn_IrqsEnabled(victim, late, random_val) ==
    /\ timer_active
    /\ timer_pc = "idle"
    /\ Len(produced) < MaxTicks
    /\ interrupted' = victim
    /\ now' = (IF now > expires THEN now ELSE expires) + late
    /\ timer_sample' = simtemp_generate_sample(now', random_val)
    /\ timer_pc' = "put_lock"
    /\ UNCHANGED <<ring, lock, config, wait_queue, timer_active, expires,
                   lifecycle, handles, tasks, history>>

\* the timer expires `late` ns after its programmed expiry, on the processor
\* that runs `victim` (NoReader: none of the readers); a processor whose task
\* holds the lock has its interrupts disabled (spin_lock_irqsave) and takes
\* the interrupt only after the unlock.  The callback generates the sample
\* (ktime_get_ns, get_random_u32)
TimerFireOn(victim, late, random_val) ==
    /\ timer_active
    /\ timer_pc = "idle"
    /\ Len(produced) < MaxTicks
    /\ victim \in Readers => ReaderCtx(victim) \notin lock
    /\ interrupted' = victim
    /\ now' = (IF now > expires THEN now ELSE expires) + late
    /\ timer_sample' = simtemp_generate_sample(now', random_val)
    /\ timer_pc' = "put_lock"
    /\ UNCHANGED <<ring, lock, config, wait_queue, timer_active, expires,
                   lifecycle, handles, tasks, history>>

\* the interrupt taken on a processor that runs none of the readers
TimerFire(late, random_val) == TimerFireOn(NoReader, late, random_val)

\* TimerPutLock entering the section without taking the lock
TimerPutLock_NoLock ==
    /\ timer_pc = "put_lock"
    /\ timer_pc' = "put_full"
    /\ UNCHANGED <<ring, lock, config, wait_queue, timer_active, expires, now,
                   timer_sample, interrupted, lifecycle, handles, tasks, history>>

\* ring_buffer_put: spin_lock_irqsave
TimerPutLock ==
    /\ timer_pc = "put_lock"
    /\ lock = {}
    /\ lock' = {TimerCtx}
    /\ timer_pc' = "put_full"
    /\ UNCHANGED <<ring, config, wait_queue, timer_active, expires, now,
                   timer_sample, interrupted, lifecycle, handles, tasks, history>>

\* TimerPutFull with the drop forgotten: a full buffer is overwritten in place
TimerPutFull_NoDrop ==
    /\ timer_pc = "put_full"
    /\ timer_pc' = "put_copy"
    /\ UNCHANGED <<ring, lock, config, wait_queue, timer_active,
                   expires, now, timer_sample, interrupted, lifecycle, handles, tasks,
                   history>>

\* TimerPutFull as a producer that waits for room instead of dropping
TimerPutFull_Blocks ==
    /\ timer_pc = "put_full"
    /\ ~ring_buffer_is_full
    /\ timer_pc' = "put_copy"
    /\ UNCHANGED <<ring, lock, config, wait_queue, timer_active,
                   expires, now, timer_sample, interrupted, lifecycle, handles, tasks,
                   history>>

\* TimerPutFull making room by discarding everything held
TimerPutFull_DropAll ==
    /\ timer_pc = "put_full"
    /\ IF ring_buffer_is_full
       THEN /\ tail' = head
            /\ dropped' = Append(dropped, samples[tail])
       ELSE UNCHANGED <<tail, dropped>>
    /\ timer_pc' = "put_copy"
    /\ UNCHANGED <<samples, head, lock, config, wait_queue, timer_active,
                   expires, now, timer_sample, interrupted, lifecycle, handles, tasks,
                   produced, delivered, lost, uaf, signals>>

\* TimerPutFull dropping the oldest sample without logging the overflow
TimerPutFull_SilentDrop ==
    /\ timer_pc = "put_full"
    /\ IF ring_buffer_is_full
       THEN tail' = NextIndex(tail)
       ELSE UNCHANGED tail
    /\ timer_pc' = "put_copy"
    /\ UNCHANGED <<samples, head, lock, config, wait_queue, timer_active,
                   expires, now, timer_sample, interrupted, lifecycle, handles, tasks,
                   history>>

\* ring_buffer_put: if full, drop the oldest sample by advancing tail
TimerPutFull ==
    /\ timer_pc = "put_full"
    /\ IF ring_buffer_is_full
       THEN /\ tail' = NextIndex(tail)
            /\ dropped' = Append(dropped, samples[tail])
       ELSE UNCHANGED <<tail, dropped>>
    /\ timer_pc' = "put_copy"
    /\ UNCHANGED <<samples, head, lock, config, wait_queue, timer_active,
                   expires, now, timer_sample, interrupted, lifecycle, handles, tasks,
                   produced, delivered, lost, uaf, signals>>

\* TimerPutCopy with the head update forgotten
TimerPutCopy_NoAdvance ==
    /\ timer_pc = "put_copy"
    /\ samples' = [samples EXCEPT ![head] = timer_sample]
    /\ lock' = lock \ {TimerCtx}
    /\ produced' = Append(produced, timer_sample)
    /\ timer_pc' = "wake"
    /\ UNCHANGED <<head, tail, config, wait_queue, timer_active, expires, now,
                   timer_sample, interrupted, lifecycle, handles, tasks,
                   delivered, dropped, lost, uaf,
                   signals>>

\* TimerPutCopy in a callback that returns after the enqueue, without
\* the wake-up
TimerPutCopy_NoSignal ==
    /\ timer_pc = "put_copy"
    /\ samples' = [samples EXCEPT ![head] = timer_sample]
    /\ head' = NextIndex(head)
    /\ lock' = lock \ {TimerCtx}
    /\ produced' = Append(produced, timer_sample)
    /\ timer_pc' = "idle"
    /\ UNCHANGED <<tail, config, wait_queue, timer_active, expires, now,
                   timer_sample, interrupted, lifecycle, handles, tasks,
                   delivered, dropped, lost, uaf,
                   signals>>

\* TimerPutCopy storing the record in front of the oldest one
TimerPutCopy_AtTail ==
    /\ timer_pc = "put_copy"
    /\ tail' = (tail - 1) % RING_BUFFER_SIZE
    /\ samples' = [samples EXCEPT ![tail'] = timer_sample]
    /\ lock' = lock \ {TimerCtx}
    /\ produced' = Append(produced, timer_sample)
    /\ timer_pc' = "wake"
    /\ UNCHANGED <<head, config, wait_queue, timer_active, expires, now,
                   timer_sample, interrupted, lifecycle, handles, tasks,
                   delivered, dropped, lost, uaf,
                   signals>>

\* ring_buffer_put: memcpy to samples[head], advance head, unlock
TimerPutCopy ==
    /\ timer_pc = "put_copy"
    /\ samples' = [samples EXCEPT ![head] = timer_sample]
    /\ head' = NextIndex(head)
    /\ lock' = lock \ {TimerCtx}
    /\ produced' = Append(produced, timer_sample)
    /\ timer_pc' = "wake"
    /\ UNCHANGED <<tail, config, wait_queue, timer_active, expires, now,
                   timer_sample, interrupted, lifecycle, handles, tasks,
                   delivered, dropped, lost, uaf,
                   signals>>

\* wake_up_interruptible, hrtimer_forward_now, return HRTIMER_RESTART;
\* hrtimer_forward_now reads the clock again, `delay` ns after the callback
\* read it for the timestamp
TimerWakeAt(delay) ==
    /\ timer_pc = "wake"
    /\ wake_up_interruptible
    /\ now' = now + delay
    /\ expires' = hrtimer_forward(expires, now', timer_interval)
    /\ signals' = signals + 1
    /\ timer_pc' = "idle"
    /\ UNCHANGED <<ring, lock, config, timer_active, timer_sample, interrupted,
                   lifecycle, handles, pc, sample, ret, wq_int, signal_pending,
                   produced, delivered, dropped, lost, uaf, at_stop,
                   taken, cancelled,
                   readable>>

\* the end of the callback with the wake-up left out
TimerWake_NoWake ==
    /\ timer_pc = "wake"
    /\ expires' = hrtimer_forward(expires, now, timer_interval)
    /\ signals' = signals + 1
    /\ timer_pc' = "idle"
    /\ UNCHANGED <<ring, lock, config, wait_queue, timer_active, now, timer_sample, interrupted,
                   lifecycle, handles, tasks,
                   produced, delivered, dropped, lost, uaf>>

TimerWake == TimerWakeAt(0)

(***************************************************************************)
(* simtemp_read                                                            *)
(***************************************************************************)
SetPc(r, p) == pc' = [pc EXCEPT ![r] = p]
SetRet(r, v) == ret' = [ret EXCEPT ![r] = v]

\* ReadCall without the count check: a short buffer is treated like any other
ReadCall_NoSizeCheck(r, count) ==
    /\ pc[r] = "idle"
    /\ fd_open[r]
    /\ IF private_data[r] = NULL
       THEN SetPc(r, "return") /\ SetRet(r, -ENODEV)
       ELSE SetPc(r, "get1_lock") /\ UNCHANGED ret
    /\ at_stop' = [at_stop EXCEPT ![r] = IF remove_pc = "done" THEN "after" ELSE "none"]
    /\ UNCHANGED <<ring, lock, config, wait_queue, timer, lifecycle, handles,
                   sample, wq_int, task_state, signal_pending, triggered, history,
                   cancelled, taken,
                   readable>>

\* entry of read(fd, buf, count): the !dev and count checks
ReadCall(r, count) ==
    /\ pc[r] = "idle"
    /\ fd_open[r]
    /\ IF private_data[r] = NULL
       THEN SetPc(r, "return") /\ SetRet(r, -ENODEV)
       ELSE IF count < SampleSize
            THEN SetPc(r, "return") /\ SetRet(r, -EINVAL)
            ELSE SetPc(r, "get1_lock") /\ UNCHANGED ret
    /\ at_stop' = [at_stop EXCEPT ![r] = IF remove_pc = "done" THEN "after" ELSE "none"]
    /\ UNCHANGED <<ring, lock, config, wait_queue, timer, lifecycle, handles,
                   sample, wq_int, task_state, signal_pending, triggered, history,
                   cancelled, taken,
                   readable>>

\* spin_lock_irqsave in ring_buffer_get
ReadLock(r) ==
    /\ pc[r] \in {"get1_lock", "get2_lock"}
    /\ lock = {}
    /\ lock' = {ReaderCtx(r)}
    /\ SetPc(r, IF pc[r] = "get1_lock" THEN "get1" ELSE "get2")
    /\ TouchDev
    /\ UNCHANGED <<ring, config, wait_queue, timer, lifecycle, handles,
                   sample, ret, wq_int, task_state, signal_pending, triggered,
                   produced, delivered, dropped, lost, at_stop,
                   taken, cancelled, signals,
                   readable>>

\* ring_buffer_get taking the newest record (the slot before head) instead
\* of the oldest
ring_buffer_get_newest(r, onEmpty, onData) ==
    /\ lock' = lock \ {ReaderCtx(r)}
    /\ TouchDev
    /\ readable' = [readable EXCEPT ![r] = FALSE]
    /\ IF ring_buffer_is_empty
       THEN /\ onEmpty
            /\ UNCHANGED <<ring, sample, delivered, taken>>
       ELSE /\ sample' = [sample EXCEPT ![r] = samples[(head - 1) % RING_BUFFER_SIZE]]
            /\ head' = (head - 1) % RING_BUFFER_SIZE
            /\ delivered' = Append(delivered, samples[(head - 1) % RING_BUFFER_SIZE])
            /\ taken' = [taken EXCEPT ![r] = taken[r] + 1]
            /\ onData
            /\ UNCHANGED <<samples, tail>>

\* ring_buffer_get with the tail update forgotten
ring_buffer_get_no_advance(r, onEmpty, onData) ==
    /\ lock' = lock \ {ReaderCtx(r)}
    /\ TouchDev
    /\ readable' = [readable EXCEPT ![r] = FALSE]
    /\ IF ring_buffer_is_empty
       THEN /\ onEmpty
            /\ UNCHANGED <<ring, sample, delivered, taken>>
       ELSE /\ sample' = [sample EXCEPT ![r] = samples[tail]]
            /\ delivered' = Append(delivered, samples[tail])
            /\ taken' = [taken EXCEPT ![r] = taken[r] + 1]
            /\ onData
            /\ UNCHANGED <<samples, head, tail>>

\* ring_buffer_get coalescing: with two records held it takes both and hands
\* the caller the second
ring_buffer_get_two(r, onEmpty, onData) ==
    /\ lock' = lock \ {ReaderCtx(r)}
    /\ TouchDev
    /\ readable' = [readable EXCEPT ![r] = FALSE]
    /\ IF ring_buffer_is_empty
       THEN /\ onEmpty
            /\ UNCHANGED <<ring, sample, delivered, taken>>
       ELSE IF NextIndex(tail) = head
            THEN /\ sample' = [sample EXCEPT ![r] = samples[tail]]
                 /\ tail' = NextIndex(tail)
                 /\ delivered' = Append(delivered, samples[tail])
                 /\ taken' = [taken EXCEPT ![r] = taken[r] + 1]
                 /\ onData
                 /\ UNCHANGED <<samples, head>>
            ELSE /\ sample' = [sample EXCEPT ![r] = samples[NextIndex(tail)]]
                 /\ tail' = NextIndex(NextIndex(tail))
                 /\ delivered' = delivered \o <<samples[tail], samples[NextIndex(tail)]>>
                 /\ taken' = [taken EXCEPT ![r] = taken[r] + 2]
                 /\ onData
                 /\ UNCHANGED <<samples, head>>

\* body of ring_buffer_get: on success the record at tail is copied out and
\* tail advances; the lock is released either way
ring_buffer_get(r, onEmpty, onData) ==
    /\ lock' = lock \ {ReaderCtx(r)}
    /\ TouchDev
    /\ readable' = [readable EXCEPT ![r] = FALSE]
    /\ IF ring_buffer_is_empty
       THEN /\ onEmpty
            /\ UNCHANGED <<ring, sample, delivered, taken>>
       ELSE /\ sample' = [sample EXCEPT ![r] = samples[tail]]
            /\ tail' = NextIndex(tail)
            /\ delivered' = Append(delivered, samples[tail])
            /\ taken' = [taken EXCEPT ![r] = taken[r] + 1]
            /\ onData
            /\ UNCHANGED <<samples, head>>

\* ReadGet1 without the O_NONBLOCK test: an empty buffer always leads to the wait
ReadGet1_IgnoresNonblock(r) ==
    /\ pc[r] = "get1"
    /\ ring_buffer_get(r,
          SetPc(r, "cond0") /\ UNCHANGED ret,
          SetPc(r, "copy") /\ UNCHANGED ret)
    /\ UNCHANGED <<config, wait_queue, timer, lifecycle, handles,
                   wq_int, task_state, signal_pending, triggered,
                   produced, dropped, lost, at_stop,
                   cancelled, signals>>

\* first ring_buffer_get of simtemp_read and the O_NONBLOCK test
ReadGet1(r) ==
    /\ pc[r] = "get1"
    /\ ring_buffer_get(r,
          IF f_nonblock[r]
          THEN SetPc(r, "return") /\ SetRet(r, -EAGAIN)
          ELSE SetPc(r, "cond0") /\ UNCHANGED ret,
          SetPc(r, "copy") /\ UNCHANGED ret)
    /\ UNCHANGED <<config, wait_queue, timer, lifecycle, handles,
                   wq_int, task_state, signal_pending, triggered,
                   produced, dropped, lost, at_stop,
                   cancelled, signals>>

\* ring_buffer_has_data: lock, test, unlock.  The section only reads, so it
\* is one step, taken when the lock is free.
ring_buffer_has_data == ~ring_buffer_is_empty

\* wait_event_interruptible: the condition tested before any registration
ReadCond0(r) ==
    /\ pc[r] = "cond0"
    /\ lock = {}
    /\ TouchDev
    /\ IF ring_buffer_has_data
       THEN SetPc(r, "get2_lock")
       ELSE SetPc(r, "prepare")
    /\ UNCHANGED <<ring, lock, config, wait_queue, timer, lifecycle, handles,
                   sample, ret, wq_int, task_state, signal_pending, triggered,
                   produced, delivered, dropped, lost, at_stop,
                   taken, cancelled, signals,
                   readable>>

\* prepare_to_wait_event: with a signal pending the entry is unlinked and
\* -ERESTARTSYS noted; otherwise the entry is queued and the task marked
\* TASK_INTERRUPTIBLE
ReadPrepare(r) ==
    /\ pc[r] = "prepare"
    /\ TouchDev
    /\ IF signal_pending[r]
       THEN /\ wait_queue' = wait_queue \ {r}
            /\ wq_int' = [wq_int EXCEPT ![r] = TRUE]
            /\ UNCHANGED task_state
       ELSE /\ wait_queue' = wait_queue \cup {r}
            /\ task_state' = [task_state EXCEPT ![r] = "INTERRUPTIBLE"]
            /\ wq_int' = [wq_int EXCEPT ![r] = FALSE]
    /\ SetPc(r, "cond")
    /\ UNCHANGED <<ring, lock, config, timer, lifecycle, handles,
                   sample, ret, signal_pending, triggered,
                   produced, delivered, dropped, lost, at_stop,
                   taken, cancelled, signals,
                   readable>>

\* ReadCond taking a wake-up for the condition: a task found runnable goes
\* to the get without testing the buffer
ReadCond_TrustsWakeup(r) ==
    /\ pc[r] = "cond"
    /\ lock = {}
    /\ TouchDev
    /\ IF ring_buffer_has_data \/ (~wq_int[r] /\ task_state[r] = "RUNNING")
       THEN /\ SetPc(r, "get2_lock")
            /\ task_state' = [task_state EXCEPT ![r] = "RUNNING"]
            /\ wait_queue' = wait_queue \ {r}
            /\ wq_int' = [wq_int EXCEPT ![r] = FALSE]
            /\ UNCHANGED ret
       ELSE IF wq_int[r]
            THEN /\ SetPc(r, "return")
                 /\ SetRet(r, -ERESTARTSYS)
                 /\ wq_int' = [wq_int EXCEPT ![r] = FALSE]
                 /\ UNCHANGED <<task_state, wait_queue>>
            ELSE /\ SetPc(r, "schedule")
                 /\ UNCHANGED <<ret, task_state, wait_queue, wq_int>>
    /\ UNCHANGED <<ring, lock, config, timer, lifecycle, handles,
                   sample, signal_pending, triggered,
                   produced, delivered, dropped, lost, at_stop,
                   taken, cancelled, signals,
                   readable>>

\* ReadCond without the second test: the task goes to sleep on the strength
\* of the test it made before it registered
ReadCond_NoRecheck(r) ==
    /\ pc[r] = "cond"
    /\ lock = {}
    /\ TouchDev
    /\ IF wq_int[r]
       THEN /\ SetPc(r, "return")
            /\ SetRet(r, -ERESTARTSYS)
            /\ wq_int' = [wq_int EXCEPT ![r] = FALSE]
       ELSE /\ SetPc(r, "schedule")
            /\ UNCHANGED <<ret, wq_int>>
    /\ UNCHANGED <<ring, lock, config, wait_queue, timer, lifecycle, handles,
                   sample, task_state, signal_pending, triggered,
                   produced, delivered, dropped, lost, at_stop,
                   taken, cancelled, signals,
                   readable>>

\* ReadCond with the signal looked at before the condition: a signalled
\* waiter returns -ERESTARTSYS even when the buffer holds a record
ReadCond_SignalFirst(r) ==
    /\ pc[r] = "cond"
    /\ lock = {}
    /\ TouchDev
    /\ IF wq_int[r]
       THEN /\ SetPc(r, "return")
            /\ SetRet(r, -ERESTARTSYS)
            /\ wq_int' = [wq_int EXCEPT ![r] = FALSE]
            /\ UNCHANGED <<task_state, wait_queue>>
       ELSE IF ring_buffer_has_data
            THEN /\ SetPc(r, "get2_lock")
                 /\ task_state' = [task_state EXCEPT ![r] = "RUNNING"]
                 /\ wait_queue' = wait_queue \ {r}
                 /\ UNCHANGED <<ret, wq_int>>
            ELSE /\ SetPc(r, "schedule")
                 /\ UNCHANGED <<ret, task_state, wait_queue, wq_int>>
    /\ UNCHANGED <<ring, lock, config, timer, lifecycle, handles,
                   sample, signal_pending, triggered,
                   produced, delivered, dropped, lost, at_stop,
                   taken, cancelled, signals,
                   readable>>

\* the condition tested after registration: data ends the wait (finish_wait),
\* a pending signal returns -ERESTARTSYS, otherwise the task calls schedule()
ReadCond(r) ==
    /\ pc[r] = "cond"
    /\ lock = {}
    /\ TouchDev
    /\ IF ring_buffer_has_data
       THEN /\ SetPc(r, "get2_lock")
            /\ task_state' = [task_state EXCEPT ![r] = "RUNNING"]
            /\ wait_queue' = wait_queue \ {r}
            /\ wq_int' = [wq_int EXCEPT ![r] = FALSE]
            /\ UNCHANGED ret
       ELSE IF wq_int[r]
            THEN /\ SetPc(r, "return")
                 /\ SetRet(r, -ERESTARTSYS)
                 /\ wq_int' = [wq_int EXCEPT ![r] = FALSE]
                 /\ UNCHANGED <<task_state, wait_queue>>
            ELSE /\ SetPc(r, "schedule")
                 /\ UNCHANGED <<ret, task_state, wait_queue, wq_int>>
    /\ UNCHANGED <<ring, lock, config, timer, lifecycle, handles,
                   sample, signal_pending, triggered,
                   produced, delivered, dropped, lost, at_stop,
                   taken, cancelled, signals,
                   readable>>

\* schedule() returns once the task has been made runnable
ReadSchedule(r) ==
    /\ pc[r] = "schedule"
    /\ task_state[r] = "RUNNING"
    /\ SetPc(r, "prepare")
    /\ UNCHANGED <<ring, lock, config, wait_queue, timer, lifecycle, handles,
                   sample, ret, wq_int, task_state, signal_pending, triggered,
                   history, at_stop,
                   taken, cancelled,
                   readable>>

\* second ring_buffer_get, after the wait: an empty buffer returns -EAGAIN
ReadGet2(r) ==
    /\ pc[r] = "get2"
    /\ ring_buffer_get(r,
          SetPc(r, "return") /\ SetRet(r, -EAGAIN),
          SetPc(r, "copy") /\ UNCHANGED ret)
    /\ UNCHANGED <<config, wait_queue, timer, lifecycle, handles,
                   wq_int, task_state, signal_pending, triggered,
                   produced, dropped, lost, at_stop,
                   cancelled, signals>>

\* copy_to_user: 16 bytes reach the caller, or the caller's buffer faults
ReadCopy(r, fault) ==
    /\ pc[r] = "copy"
    /\ fault => Cardinality(lost) < MaxFaults
    /\ IF fault
       THEN /\ SetRet(r, -EFAULT)
            /\ lost' = lost \cup {sample[r]}
       ELSE /\ SetRet(r, SampleSize)
            /\ UNCHANGED lost
    /\ sample' = [sample EXCEPT ![r] = ZeroSample]
    /\ SetPc(r, "return")
    /\ UNCHANGED <<ring, lock, config, wait_queue, timer, lifecycle, handles,
                   wq_int, task_state, signal_pending, triggered,
                   produced, delivered, dropped, uaf, at_stop,
                   taken, cancelled, signals,
                   readable>>

\* the system call returns to user space; a pending signal is handled there
SyscallReturn(r) ==
    /\ pc[r] = "return"
    /\ SetPc(r, "idle")
    /\ SetRet(r, 0)
    /\ signal_pending' = [signal_pending EXCEPT ![r] = FALSE]
    /\ at_stop' = [at_stop EXCEPT ![r] = "none"]
    /\ taken' = [taken EXCEPT ![r] = 0]
    /\ cancelled' = [cancelled EXCEPT ![r] = FALSE]
    /\ UNCHANGED <<ring, lock, config, wait_queue, timer, lifecycle, handles,
                   sample, wq_int, task_state, triggered, history,
                   readable>>

\* a signal is delivered to a task that waits in read
Signal(r) ==
    /\ pc[r] \in {"prepare", "cond", "schedule", "poll_sleep"}
    /\ ~signal_pending[r]
    /\ signal_pending' = [signal_pending EXCEPT ![r] = TRUE]
    /\ cancelled' = [cancelled EXCEPT ![r] =
                        pc[r] = "schedule" /\ Suspended(r) /\ ring_buffer_is_empty]
    /\ task_state' = [task_state EXCEPT ![r] = "RUNNING"]
    /\ UNCHANGED <<ring, lock, config, wait_queue, timer, lifecycle, handles,
                   pc, sample, ret, wq_int, triggered, history, at_stop,
                   taken,
                   readable>>

(***************************************************************************)
(* simtemp_poll, and the poll system call around it                        *)
(***************************************************************************)
\* entry of poll(fds, 1, timeout): the !dev check of simtemp_poll
PollCall(r) ==
    /\ pc[r] = "idle"
    /\ fd_open[r]
    /\ IF private_data[r] = NULL
       THEN SetPc(r, "return") /\ SetRet(r, POLLERR)
       ELSE SetPc(r, "poll_wait") /\ UNCHANGED ret
    /\ at_stop' = [at_stop EXCEPT ![r] = IF remove_pc = "done" THEN "after" ELSE "none"]
    /\ UNCHANGED <<ring, lock, config, wait_queue, timer, lifecycle, handles,
                   sample, wq_int, task_state, signal_pending, triggered, history,
                   cancelled, taken,
                   readable>>

\* PollWait without the registration: the emptiness test is made by a caller
\* that is not on the wait queue
PollWait_NoRegister(r) ==
    /\ pc[r] = "poll_wait"
    /\ TouchDev
    /\ SetPc(r, "poll_check")
    /\ UNCHANGED <<ring, lock, config, wait_queue, timer, lifecycle, handles,
                   sample, ret, wq_int, task_state, signal_pending, triggered,
                   produced, delivered, dropped, lost, at_stop,
                   taken, cancelled, signals,
                   readable>>

\* poll_wait(filp, &dev->wait_queue, wait): the caller's entry is queued
PollWait(r) ==
    /\ pc[r] = "poll_wait"
    /\ TouchDev
    /\ wait_queue' = wait_queue \cup {r}
    /\ SetPc(r, "poll_check")
    /\ UNCHANGED <<ring, lock, config, timer, lifecycle, handles,
                   sample, ret, wq_int, task_state, signal_pending, triggered,
                   produced, delivered, dropped, lost, at_stop,
                   taken, cancelled, signals,
                   readable>>

\* the mask of a poll that reports the device readable without looking
PollMask_Always == POLLIN_RDNORM

\* the mask simtemp_poll returns: ring_buffer_has_data decides POLLIN | POLLRDNORM
PollMask == IF ring_buffer_has_data THEN POLLIN_RDNORM ELSE 0

\* the emptiness test of simtemp_poll; in the pass made after a timeout the
\* system call returns whatever mask it finds
PollCheck(r) ==
    /\ pc[r] \in {"poll_check", "poll_final"}
    /\ lock = {}
    /\ TouchDev
    /\ SetRet(r, PollMask)
    /\ readable' = [readable EXCEPT ![r] = ring_buffer_has_data]
    /\ SetPc(r, IF pc[r] = "poll_final" THEN "poll_exit" ELSE "poll_done")
    /\ UNCHANGED <<ring, lock, config, wait_queue, timer, lifecycle, handles,
                   sample, wq_int, task_state, signal_pending, triggered,
                   produced, delivered, dropped, lost, at_stop,
                   taken, cancelled, signals>>

\* the poll core after a pass that found nothing: a pending signal ends the
\* call, otherwise the task sleeps unless its entry was triggered meanwhile
PollDone(r) ==
    /\ pc[r] = "poll_done"
    /\ IF ret[r] # 0
       THEN /\ SetPc(r, "poll_exit")
            /\ UNCHANGED <<ret, task_state, triggered>>
       ELSE IF signal_pending[r]
            THEN /\ SetPc(r, "poll_exit")
                 /\ SetRet(r, -EINTR)
                 /\ UNCHANGED <<task_state, triggered>>
            ELSE IF triggered[r]
                 THEN /\ SetPc(r, "poll_check")
                      /\ triggered' = [triggered EXCEPT ![r] = FALSE]
                      /\ UNCHANGED <<ret, task_state>>
                 ELSE /\ SetPc(r, "poll_sleep")
                      /\ task_state' = [task_state EXCEPT ![r] = "INTERRUPTIBLE"]
                      /\ UNCHANGED <<ret, triggered>>
    /\ UNCHANGED <<ring, lock, config, wait_queue, timer, lifecycle, handles,
                   sample, wq_int, signal_pending, history, at_stop,
                   taken, cancelled,
                   readable>>

\* the sleeping poll caller was made runnable: it calls simtemp_poll again
\* (poll_wait no longer queues anything)
PollResume(r) ==
    /\ pc[r] = "poll_sleep"
    /\ task_state[r] = "RUNNING"
    /\ triggered' = [triggered EXCEPT ![r] = FALSE]
    /\ SetPc(r, "poll_check")
    /\ UNCHANGED <<ring, lock, config, wait_queue, timer, lifecycle, handles,
                   sample, ret, wq_int, task_state, signal_pending, history, at_stop,
                   taken, cancelled,
                   readable>>

\* the caller's timeout expires while it sleeps: one last pass follows
PollTimeout(r) ==
    /\ pc[r] = "poll_sleep"
    /\ task_state[r] = "INTERRUPTIBLE"
    /\ task_state' = [task_state EXCEPT ![r] = "RUNNING"]
    /\ SetPc(r, "poll_final")
    /\ UNCHANGED <<ring, lock, config, wait_queue, timer, lifecycle, handles,
                   sample, ret, wq_int, signal_pending, triggered, history, at_stop,
                   taken, cancelled,
                   readable>>

\* poll_freewait: the entry leaves the wait queue and the call returns
PollExit(r) ==
    /\ pc[r] = "poll_exit"
    /\ TouchDev
    /\ wait_queue' = wait_queue \ {r}
    /\ triggered' = [triggered EXCEPT ![r] = FALSE]
    /\ SetPc(r, "return")
    /\ UNCHANGED <<ring, lock, config, timer, lifecycle, handles,
                   sample, ret, wq_int, task_state, signal_pending,
                   produced, delivered, dropped, lost, at_stop,
                   taken, cancelled, signals,
                   readable>>

(***************************************************************************)
(* simtemp_remove, followed by the release of the devm allocation          *)
(***************************************************************************)
\* RemoveCall in a remove that goes to the wake-up without stopping the timer
RemoveCall_SkipsCancel ==
    /\ remove_pc = "none"
    /\ remove_pc' = "wake"
    /\ UNCHANGED <<ring, lock, config, wait_queue, timer, simtemp_dev,
                   registered, dev_freed, handles, tasks, history,
                   probe_pc>>

\* the platform device is unbound and the driver core calls simtemp_remove
RemoveCall ==
    /\ remove_pc = "none"
    /\ remove_pc' = "cancel"
    /\ UNCHANGED <<ring, lock, config, wait_queue, timer, simtemp_dev,
                   registered, dev_freed, handles, tasks, history,
                   probe_pc>>

\* RemoveCancel as hrtimer_try_to_cancel would do it: the timer is made
\* inactive without waiting for a callback that is running
RemoveCancel_NoWait ==
    /\ remove_pc = "cancel"
    /\ timer_active' = FALSE
    /\ remove_pc' = "wake"
    /\ UNCHANGED <<ring, lock, config, wait_queue, expires, now, timer_pc,
                   timer_sample, interrupted, simtemp_dev, registered, dev_freed, handles,
                   tasks, history,
                   probe_pc>>

\* hrtimer_cancel: waits for a running callback, then the timer is inactive
RemoveCancel ==
    /\ remove_pc = "cancel"
    /\ timer_pc = "idle"
    /\ timer_active' = FALSE
    /\ remove_pc' = "wake"
    /\ UNCHANGED <<ring, lock, config, wait_queue, expires, now, timer_pc,
                   timer_sample, interrupted, simtemp_dev, registered, dev_freed, handles,
                   tasks, history,
                   probe_pc>>

\* wake_up_interruptible(&dev->wait_queue)
RemoveWake ==
    /\ remove_pc = "wake"
    /\ wake_up_interruptible
    /\ at_stop' = [r \in Readers |-> IF Suspended(r) THEN "asleep" ELSE at_stop[r]]
    /\ remove_pc' = "deregister"
    /\ UNCHANGED <<ring, lock, config, timer, simtemp_dev, registered,
                   dev_freed, handles, pc, sample, ret, wq_int, signal_pending,
                   history,
                   cancelled, taken,
                   readable, probe_pc>>

\* misc_deregister, simtemp_dev = NULL, return
RemoveDeregister ==
    /\ remove_pc = "deregister"
    /\ registered' = FALSE
    /\ simtemp_dev' = NULL
    /\ remove_pc' = "done"
    /\ UNCHANGED <<ring, lock, config, wait_queue, timer, dev_freed, handles,
                   tasks, history,
                   probe_pc>>

\* after remove returned, the driver core releases the devm_kzalloc memory
DevresRelease ==
    /\ remove_pc = "done"
    /\ ~dev_freed
    /\ dev_freed' = TRUE
    /\ UNCHANGED <<ring, lock, config, wait_queue, timer, simtemp_dev,
                   registered, remove_pc, handles, tasks, history,
                   probe_pc>>

(***************************************************************************)
(* simtemp_probe, from the zeroed devm_kzalloc structure on, and           *)
(* simtemp_open / simtemp_release                                          *)
(***************************************************************************)
\* device-tree properties offered to the probe (0: the property is absent):
\* none; a threshold equal to the base temperature; a configuration whose
\* base + variation exceeds the signed range; one whose variation fills half
\* the unsigned range
DtProps ==
    { [sampling_ms |-> 0, threshold_mC |-> 0, base_temp_mC |-> 0, temp_variation_mC |-> 0],
      [sampling_ms |-> 0, threshold_mC |-> DefaultBaseTemp, base_temp_mC |-> 0,
       temp_variation_mC |-> 0],
      [sampling_ms |-> 50, threshold_mC |-> 30000, base_temp_mC |-> IntMax - 5000,
       temp_variation_mC |-> 10000],
      [sampling_ms |-> 50, threshold_mC |-> 30000, base_temp_mC |-> 20000,
       temp_variation_mC |-> Word \div 2] }

\* of_property_read_u32 with the default taken when the field is still 0,
\* ring_buffer_init, init_waitqueue_head, hrtimer_init and the interval
\* ProbeConfig storing the properties as read, a zero included
ProbeConfig_NoDefaults(dt) ==
    [sampling_ms |-> ToU(dt.sampling_ms),
     threshold_mC |-> ToS(dt.threshold_mC),
     base_temp_mC |-> ToS(dt.base_temp_mC),
     temp_variation_mC |-> ToU(dt.temp_variation_mC)]

ProbeConfig(dt) ==
    [sampling_ms |-> IF ToU(dt.sampling_ms) = 0 THEN DefaultSamplingMs
                     ELSE ToU(dt.sampling_ms),
     threshold_mC |-> IF ToS(dt.threshold_mC) = 0 THEN DefaultThreshold
                      ELSE ToS(dt.threshold_mC),
     base_temp_mC |-> IF ToS(dt.base_temp_mC) = 0 THEN DefaultBaseTemp
                      ELSE ToS(dt.base_temp_mC),
     temp_variation_mC |-> IF ToU(dt.temp_variation_mC) = 0 THEN DefaultVariation
                           ELSE ToU(dt.temp_variation_mC)]

ProbeParse(dt) ==
    /\ probe_pc = "parse"
    /\ sampling_ms' = ProbeConfig(dt).sampling_ms
    /\ threshold_mC' = ProbeConfig(dt).threshold_mC
    /\ base_temp_mC' = ProbeConfig(dt).base_temp_mC
    /\ temp_variation_mC' = ProbeConfig(dt).temp_variation_mC
    /\ timer_interval' = sampling_ms' * NsPerMs
    /\ samples' = [i \in 0 .. RING_BUFFER_SIZE - 1 |-> ZeroSample]
    /\ head' = 0
    /\ tail' = 0
    /\ lock' = {}
    /\ wait_queue' = {}
    /\ probe_pc' = "register"
    /\ UNCHANGED <<timer, simtemp_dev, registered, dev_freed, remove_pc,
                   handles, tasks, history>>

\* misc_register: /dev/simtemp exists from here on; on failure probe returns
ProbeRegister(ok) ==
    /\ probe_pc = "register"
    /\ registered' = ok
    /\ probe_pc' = IF ok THEN "publish" ELSE "failed"
    /\ UNCHANGED <<ring, lock, config, wait_queue, timer, simtemp_dev,
                   dev_freed, remove_pc, handles, tasks, history>>

\* simtemp_dev = dev
ProbePublish ==
    /\ probe_pc = "publish"
    /\ simtemp_dev' = Dev
    /\ probe_pc' = "start"
    /\ UNCHANGED <<ring, lock, config, wait_queue, timer, registered,
                   dev_freed, remove_pc, handles, tasks, history>>

\* hrtimer_start(&dev->timer, dev->timer_interval, HRTIMER_MODE_REL)
ProbeStart ==
    /\ probe_pc = "start"
    /\ timer_active' = TRUE
    /\ expires' = now + timer_interval
    /\ probe_pc' = "done"
    /\ UNCHANGED <<ring, lock, config, wait_queue, now, timer_pc, timer_sample, interrupted,
                   simtemp_dev, registered, dev_freed, remove_pc,
                   handles, tasks, history>>

\* open("/dev/simtemp", flags): possible once the misc device is registered;
\* simtemp_open stores the global pointer in the file
simtemp_open(r, nonblock) ==
    /\ registered
    /\ ~fd_open[r]
    /\ fd_open' = [fd_open EXCEPT ![r] = TRUE]
    /\ private_data' = [private_data EXCEPT ![r] = simtemp_dev]
    /\ f_nonblock' = [f_nonblock EXCEPT ![r] = nonblock]
    /\ UNCHANGED <<ring, lock, config, wait_queue, timer, lifecycle, tasks, history>>

\* simtemp_release cancelling the timer when the last handle is closed
simtemp_release_stops_timer(r) ==
    /\ fd_open[r]
    /\ pc[r] = "idle"
    /\ fd_open' = [fd_open EXCEPT ![r] = FALSE]
    /\ timer_active' = (timer_active /\ \E q \in Readers \ {r} : fd_open[q])
    /\ UNCHANGED <<ring, lock, config, wait_queue, expires, now, timer_pc,
                   timer_sample, interrupted, lifecycle, f_nonblock, private_data, tasks, history>>

\* close(fd): simtemp_release does nothing, the file goes away
simtemp_release(r) ==
    /\ fd_open[r]
    /\ pc[r] = "idle"
    /\ fd_open' = [fd_open EXCEPT ![r] = FALSE]
    /\ UNCHANGED <<ring, lock, config, wait_queue, timer, lifecycle,
                   f_nonblock, private_data, tasks, history>>

\* the state at the entry of simtemp_probe: the structure is zeroed, nothing
\* is registered and nobody holds a handle
InitProbe ==
    /\ samples = [i \in 0 .. RING_BUFFER_SIZE - 1 |-> ZeroSample]
    /\ head = 0
    /\ tail = 0
    /\ lock = {}
    /\ sampling_ms = 0
    /\ threshold_mC = 0
    /\ base_temp_mC = 0
    /\ temp_variation_mC = 0
    /\ timer_interval = 0
    /\ wait_queue = {}
    /\ timer_active = FALSE
    /\ now = 0
    /\ expires = 0
    /\ timer_pc = "idle"
    /\ timer_sample = ZeroSample
    /\ interrupted = NoReader
    /\ simtemp_dev = NULL
    /\ registered = FALSE
    /\ dev_freed = FALSE
    /\ remove_pc = "none"
    /\ probe_pc = "parse"
    /\ produced = <<>>
    /\ delivered = <<>>
    /\ dropped = <<>>
    /\ lost = {}
    /\ uaf = FALSE
    /\ signals = 0
    /\ private_data = [r \in Readers |-> NULL]
    /\ fd_open = [r \in Readers |-> FALSE]
    /\ f_nonblock = [r \in Readers |-> FALSE]
    /\ pc = [r \in Readers |-> "idle"]
    /\ sample = [r \in Readers |-> ZeroSample]
    /\ ret = [r \in Readers |-> 0]
    /\ wq_int = [r \in Readers |-> FALSE]
    /\ task_state = [r \in Readers |-> "RUNNING"]
    /\ signal_pending = [r \in Readers |-> FALSE]
    /\ triggered = [r \in Readers |-> FALSE]
    /\ at_stop = [r \in Readers |-> "none"]
    /\ taken = [r \in Readers |-> 0]
    /\ cancelled = [r \in Readers |-> FALSE]
    /\ readable = [r \in Readers |-> FALSE]

ProbeStep ==
    \/ \E dt \in DtProps : ProbeParse(dt)
    \/ \E ok \in BOOLEAN : ProbeRegister(ok)
    \/ ProbePublish
    \/ ProbeStart

(***************************************************************************)
(* The state in which simtemp_probe leaves the device with no device-tree  *)
(* properties, and every reader holding a handle opened on it.             *)
(***************************************************************************)
InitDevice ==
    /\ samples = [i \in 0 .. RING_BUFFER_SIZE - 1 |-> ZeroSample]
    /\ head = 0
    /\ tail = 0
    /\ lock = {}
    /\ sampling_ms = DefaultSamplingMs
    /\ threshold_mC = DefaultThreshold
    /\ base_temp_mC = DefaultBaseTemp
    /\ temp_variation_mC = DefaultVariation
    /\ timer_interval = DefaultSamplingMs * NsPerMs
    /\ wait_queue = {}
    /\ timer_active = TRUE
    /\ now = 0
    /\ expires = DefaultSamplingMs * NsPerMs
    /\ timer_pc = "idle"
    /\ timer_sample = ZeroSample
    /\ interrupted = NoReader
    /\ simtemp_dev = Dev
    /\ registered = TRUE
    /\ dev_freed = FALSE
    /\ remove_pc = "none"
    /\ probe_pc = "done"
    /\ produced = <<>>
    /\ delivered = <<>>
    /\ dropped = <<>>
    /\ lost = {}
    /\ uaf = FALSE
    /\ signals = 0

InitTasks ==
    /\ private_data = [r \in Readers |-> Dev]
    /\ fd_open = [r \in Readers |-> TRUE]
    /\ pc = [r \in Readers |-> "idle"]
    /\ sample = [r \in Readers |-> ZeroSample]
    /\ ret = [r \in Readers |-> 0]
    /\ wq_int = [r \in Readers |-> FALSE]
    /\ task_state = [r \in Readers |-> "RUNNING"]
    /\ signal_pending = [r \in Readers |-> FALSE]
    /\ triggered = [r \in Readers |-> FALSE]
    /\ at_stop = [r \in Readers |-> "none"]
    /\ taken = [r \in Readers |-> 0]
    /\ cancelled = [r \in Readers |-> FALSE]
    /\ readable = [r \in Readers |-> FALSE]

Init ==
    /\ InitDevice
    /\ InitTasks
    /\ f_nonblock \in [Readers -> BOOLEAN]
    \* the readers are interchangeable: the blocking handles come first
    /\ \A r1, r2 \in Readers : (r1 < r2 /\ f_nonblock[r1]) => f_nonblock[r2]

TimerStep ==
    \/ TimerFire(0, 0)
    \/ TimerPutLock
    \/ TimerPutFull
    \/ TimerPutCopy
    \/ TimerWake

ReadStep(r) ==
    \/ \E count \in {8, SampleSize, 4 * SampleSize} : ReadCall(r, count)
    \/ ReadLock(r)
    \/ ReadGet1(r)
    \/ ReadCond0(r)
    \/ ReadPrepare(r)
    \/ ReadCond(r)
    \/ ReadSchedule(r)
    \/ ReadGet2(r)
    \/ \E fault \in BOOLEAN : ReadCopy(r, fault)
    \/ SyscallReturn(r)
    \/ Signal(r)

PollStep(r) ==
    \/ PollCall(r)
    \/ PollWait(r)
    \/ PollCheck(r)
    \/ PollDone(r)
    \/ PollResume(r)
    \/ PollTimeout(r)
    \/ PollExit(r)

\* the pcs at which the next step of the task dereferences the device
DevPcs == {"get1_lock", "get1", "get2_lock", "get2", "cond0", "prepare", "cond",
           "poll_wait", "poll_check", "poll_final", "poll_exit"}

\* a dereference of the released device structure may also fault: the task
\* dies in the kernel (holding whatever it holds) instead of going on
UafOops(r) ==
    /\ dev_freed
    /\ pc[r] \in DevPcs
    /\ SetPc(r, "oops")
    /\ uaf' = TRUE
    /\ UNCHANGED <<ring, lock, config, wait_queue, timer, lifecycle, handles,
                   sample, ret, wq_int, task_state, signal_pending, triggered,
                   at_stop, produced, delivered, dropped, lost,
                   taken, cancelled, signals,
                   readable>>

RemoveStep ==
    \/ RemoveCall
    \/ RemoveCancel
    \/ RemoveWake
    \/ RemoveDeregister
    \/ DevresRelease

\* simtemp_remove entered a second time, after the first call has returned
\* and the device structure has been released: hrtimer_cancel(&dev->timer),
\* wake_up_interruptible(&dev->wait_queue) and misc_deregister(&dev->mdev)
\* work on released memory.  The call faults, or it runs through on what
\* the memory still holds.
RemoveAgain(outcome) ==
    /\ remove_pc \in {"done", "again"}
    /\ dev_freed
    /\ uaf' = TRUE
    /\ remove_pc' = outcome
    /\ IF outcome = "oops"
       THEN UNCHANGED <<wait_queue, task_state, triggered>>
       ELSE wake_up_interruptible
    /\ UNCHANGED <<ring, lock, config, timer, simtemp_dev, registered, dev_freed,
                   handles, pc, sample, ret, wq_int, signal_pending, at_stop,
                   taken, cancelled, produced, delivered, dropped, lost, signals,
                   readable, probe_pc>>

\* the running device: the timer, and readers that read
Next ==
    \/ TimerStep
    \/ \E r \in Readers : ReadStep(r)

Spec == Init /\ [][Next]_vars

\* the running device with readers that read and poll
NextPoll ==
    \/ Next
    \/ \E r \in Readers : PollStep(r)

SpecPoll == Init /\ [][NextPoll]_vars

\* the same with the device being removed at any moment
NextStop ==
    \/ Next
    \/ RemoveStep
    \/ \E r \in Readers : UafOops(r)

SpecStop == Init /\ [][NextStop]_vars

\* the device removed, and simtemp_remove then called again; reader 1 reads
NextStopTwice ==
    \/ TimerStep
    \/ ReadStep(1)
    \/ RemoveStep
    \/ \E outcome \in {"oops", "again"} : RemoveAgain(outcome)

SpecStopTwice == Init /\ [][NextStopTwice]_vars

\* the device being probed while tasks open, read and close it
NextProbe ==
    \/ ProbeStep
    \/ TimerStep
    \/ \E r \in Readers :
          \/ \E nonblock \in BOOLEAN : simtemp_open(r, nonblock)
          \/ simtemp_release(r)
    \/ ReadStep(1)

SpecProbe == InitProbe /\ [][NextProbe]_vars

\* the same with the first task also polling
NextProbePoll ==
    \/ NextProbe
    \/ PollStep(1)

SpecProbePoll == InitProbe /\ [][NextProbePoll]_vars

\* the state in which simtemp_probe leaves the device for any of the
\* device-tree configurations, with every reader holding a handle
InitGen ==
    /\ InitTasks
    /\ f_nonblock = [r \in Readers |-> TRUE]
    /\ \E dt \in DtProps :
          /\ sampling_ms = ProbeConfig(dt).sampling_ms
          /\ threshold_mC = ProbeConfig(dt).threshold_mC
          /\ base_temp_mC = ProbeConfig(dt).base_temp_mC
          /\ temp_variation_mC = ProbeConfig(dt).temp_variation_mC
          /\ timer_interval = ProbeConfig(dt).sampling_ms * NsPerMs
          /\ expires = ProbeConfig(dt).sampling_ms * NsPerMs
    /\ samples = [i \in 0 .. RING_BUFFER_SIZE - 1 |-> ZeroSample]
    /\ head = 0
    /\ tail = 0
    /\ lock = {}
    /\ wait_queue = {}
    /\ timer_active = TRUE
    /\ now = 0
    /\ timer_pc = "idle"
    /\ timer_sample = ZeroSample
    /\ interrupted = NoReader
    /\ simtemp_dev = Dev
    /\ registered = TRUE
    /\ dev_freed = FALSE
    /\ remove_pc = "none"
    /\ probe_pc = "done"
    /\ produced = <<>>
    /\ delivered = <<>>
    /\ dropped = <<>>
    /\ lost = {}
    /\ uaf = FALSE
    /\ signals = 0

\* words get_random_u32 may return: they give the least variation, none, one
\* step up, the greatest, and the largest word
RandomVals == {0, DefaultVariation, DefaultVariation + 1, 2 * DefaultVariation, Word - 1}

\* the callback with the random source unconstrained
TimerStepRandom ==
    \/ \E random_val \in RandomVals : TimerFire(0, random_val)
    \/ TimerPutLock
    \/ TimerPutFull
    \/ TimerPutCopy
    \/ TimerWake

\* the generator under every configuration, with one reader that reads
\* what it is given room for
NextGen ==
    \/ TimerStepRandom
    \/ ReadCall(1, SampleSize)
    \/ ReadLock(1)
    \/ ReadGet1(1)
    \/ ReadCopy(1, FALSE)
    \/ SyscallReturn(1)

SpecGen == InitGen /\ [][NextGen]_vars

\* how late the timer interrupt may be served, and how much later the
\* callback reaches hrtimer_forward_now: on time, or late by more than a period
Lates == {0, timer_interval + timer_interval \div 4}
Delays == {0, (3 * timer_interval) \div 4}

\* the callback under interrupt latency
TimerStepLate ==
    \/ \E late \in Lates : TimerFire(late, 0)
    \/ TimerPutLock
    \/ TimerPutFull
    \/ TimerPutCopy
    \/ \E delay \in Delays : TimerWakeAt(delay)

InitClock ==
    /\ InitDevice
    /\ InitTasks
    /\ f_nonblock = [r \in Readers |-> TRUE]

\* the timer under interrupt latency with a single reader draining the buffer
NextClock ==
    \/ TimerStepLate
    \/ ReadCall(1, SampleSize)
    \/ ReadLock(1)
    \/ ReadGet1(1)
    \/ ReadCopy(1, FALSE)
    \/ SyscallReturn(1)

SpecClock == InitClock /\ [][NextClock]_vars

\* the only reader, blocking, reading into a buffer that is large enough and
\* mapped, with no signal sent to it
ReadStepOk(r) ==
    \/ ReadCall(r, SampleSize)
    \/ ReadLock(r)
    \/ ReadGet1(r)
    \/ ReadCond0(r)
    \/ ReadPrepare(r)
    \/ ReadCond(r)
    \/ ReadSchedule(r)
    \/ ReadGet2(r)
    \/ ReadCopy(r, FALSE)
    \/ SyscallReturn(r)

InitFair ==
    /\ InitDevice
    /\ InitTasks
    /\ f_nonblock = [r \in Readers |-> FALSE]

NextFair ==
    \/ TimerStep
    \/ ReadStepOk(1)

\* the timer interrupt is served and the reader is scheduled whenever it
\* can run
SpecFair ==
    /\ InitFair
    /\ [][NextFair]_vars
    /\ WF_vars(TimerStep)
    /\ WF_vars(ReadStepOk(1))

\* a single consumer that polls and reads
NextPollSingle ==
    \/ TimerStep
    \/ ReadStep(1)
    \/ PollStep(1)

SpecPollSingle == Init /\ [][NextPollSingle]_vars

\* the callback runs on the processor of reader r, which does not run
\* until the callback has returned
OnTimerCpu(r) == timer_pc # "idle" /\ interrupted = r

\* the callback with the interrupt taken on any processor
TimerStepIrq ==
    \/ \E victim \in Readers \cup {NoReader} : TimerFireOn(victim, 0, 0)
    \/ TimerPutLock
    \/ TimerPutFull
    \/ TimerPutCopy
    \/ TimerWake

\* the readers and the timer interrupt sharing the processors
NextIrq ==
    \/ TimerStepIrq
    \/ \E r \in Readers : ~OnTimerCpu(r) /\ ReadStep(r)

SpecIrq == Init /\ [][NextIrq]_vars

\* a single consumer: only reader 1 ever issues a system call
NextSingle ==
    \/ TimerStep
    \/ ReadStep(1)

SpecSingle == Init /\ [][NextSingle]_vars

(***************************************************************************)
(* Derived views of the state used by the properties.                      *)
(***************************************************************************)
\* number of records held, computed from the two indices
Count == (head - tail) % RING_BUFFER_SIZE

\* the records held, oldest first
BufferSeq == [i \in 1 .. Count |-> samples[(tail + i - 1) % RING_BUFFER_SIZE]]

Range(seq) == {seq[i] : i \in 1 .. Len(seq)}

Occurrences(x, seq) == Cardinality({i \in 1 .. Len(seq) : seq[i] = x})

NoDuplicates(seq) == \A i, j \in 1 .. Len(seq) : seq[i] = seq[j] => i = j

\* the positions at which x was put
Positions(x) == {k \in 1 .. Len(produced) : produced[k] = x}

\* the last n records put, oldest first
LastPut(n) == SubSeq(produced, Len(produced) - n + 1, Len(produced))

(***************************************************************************)
(* C1: the records returned by successive successful gets, in the order   *)
(* the gets complete, are in the order in which they were put: every       *)
(* returned record was put, and a record returned later was put later.     *)
(***************************************************************************)
C1_GetsInPutOrder ==
    /\ \A i \in 1 .. Len(delivered) : Positions(delivered[i]) # {}
    /\ \A i, j \in 1 .. Len(delivered) :
          i < j => \A a \in Positions(delivered[i]), b \in Positions(delivered[j]) : a < b

\* gets have completed on both sides of an overflow
C1_Witness ==
    /\ Len(delivered) >= 3
    /\ Len(dropped) >= 1
    /\ \E i \in 1 .. Len(delivered) - 1 :
          \E a \in Positions(delivered[i]), b \in Positions(delivered[i + 1]) : b > a + 1

(***************************************************************************)
(* C2: every produced record is accounted for exactly once: it is in the   *)
(* buffer, or was dropped by overflow, or was taken by exactly one read,   *)
(* and a record taken by a read reaches the caller.                        *)
(***************************************************************************)
C2_ExactlyOnce ==
    \A k \in 1 .. Len(produced) :
        /\ Occurrences(produced[k], BufferSeq)
             + Occurrences(produced[k], dropped)
             + Occurrences(produced[k], delivered) = 1
        /\ produced[k] \notin lost

(***************************************************************************)
(* C3: no lost wake-up: a task that sleeps in schedule(), in read or in    *)
(* poll, while the buffer holds a record is only ever in that state        *)
(* between the producer's enqueue and its wake_up_interruptible: the       *)
(* callback stands at the wake-up, nothing can hold it back, and the       *)
(* sleeper is on the queue that wake-up walks.                             *)
(***************************************************************************)
C3_NoLostWakeup ==
    \A r \in Readers :
        (Suspended(r) /\ ring_buffer_has_data) =>
            /\ timer_pc = "wake"
            /\ ENABLED TimerWake
            /\ r \in wait_queue

\* a reader asleep in read and a poll caller have both been woken by the
\* producer while the record is in the buffer
C3_Witness ==
    /\ ring_buffer_has_data
    /\ \E r \in Readers :
          pc[r] = "schedule" /\ task_state[r] = "RUNNING" /\ ~signal_pending[r]
    /\ \E r \in Readers :
          pc[r] = "poll_sleep" /\ task_state[r] = "RUNNING" /\ triggered[r]

(***************************************************************************)
(* C4: a blocking read never completes with -EAGAIN.                       *)
(***************************************************************************)
C4_BlockingNeverEagain ==
    \A r \in Readers :
        (~f_nonblock[r] /\ pc[r] = "return") => ret[r] # -EAGAIN

(***************************************************************************)
(* C5: a reader that was suspended in a blocking read when remove issued   *)
(* its wake-up is not suspended once remove has completed, and its read    *)
(* returns the terminal outcome (-ENODEV, or 0 for end of file).           *)
(***************************************************************************)
C5_StopReleasesSleepers ==
    \A r \in Readers :
        (remove_pc = "done" /\ at_stop[r] = "asleep") =>
            /\ ~Suspended(r)
            /\ pc[r] = "return" => ret[r] \in {-ENODEV, 0}

(***************************************************************************)
(* C6: a read or poll issued after remove has completed returns the        *)
(* terminal outcome (read: -ENODEV or 0, poll: POLLERR); it returns no     *)
(* record and no -EAGAIN, and it does not suspend.  A read whose buffer is *)
(* too small may still be refused as such.                                 *)
(***************************************************************************)
C6_AfterStopDeviceGone ==
    \A r \in Readers :
        at_stop[r] = "after" =>
            /\ ~Suspended(r)
            /\ pc[r] # "copy"
            /\ pc[r] = "return" => ret[r] \in {-ENODEV, 0, POLLERR, -EINVAL}

BurstThenDrain ==
    /\ timer_pc # "put_copy"
    /\ Len(produced) >= RING_BUFFER_SIZE
    /\ Len(dropped) = Len(produced) - (RING_BUFFER_SIZE - 1)

C10_PrefixRemoved ==
    \E p \in 0 .. Len(produced) :
        /\ p + Len(delivered) <= Len(produced)
        /\ delivered = SubSeq(produced, p + 1, p + Len(delivered))

(***************************************************************************)
(* C10, amended: the records the single consumer's reads have taken,       *)
(* followed by the records still buffered, are the produced sequence with  *)
(* exactly the records dropped by overflow removed, in produced order.     *)
(***************************************************************************)
NotDropped(x) == x \notin Range(dropped)

C10_ProducedLessDropped ==
    delivered \o BufferSeq = SelectSeq(produced, NotDropped)

\* a dropped record lies between two records the consumer received
C10_Witness ==
    \E i \in 1 .. Len(delivered) - 1 :
        \E d \in 1 .. Len(dropped) :
            \E a \in Positions(delivered[i]), b \in Positions(dropped[d]),
               c \in Positions(delivered[i + 1]) : a < b /\ b < c

(***************************************************************************)
(* C11: poll registers the caller on the wait queue before it tests        *)
(* emptiness: from the test until poll_freewait the caller is on the       *)
(* queue.  The mask of a pass is POLLIN | POLLRDNORM exactly when the      *)
(* buffer holds a record at that test, and 0 otherwise.  A record enqueued *)
(* after a test that found nothing is not missed: the caller's entry has   *)
(* been triggered, or the producer stands at the wake-up with the caller   *)
(* queued, or the caller is already on its way to another test.            *)
(***************************************************************************)
C11_PollRegistersThenTests ==
    /\ [](\A r \in Readers :
            pc[r] \in {"poll_check", "poll_done", "poll_sleep", "poll_final"}
                => r \in wait_queue)
    /\ [][\A r \in Readers :
            PollCheck(r) =>
                /\ r \in wait_queue
                /\ ret'[r] = POLLIN_RDNORM <=> ring_buffer_has_data
                /\ ret'[r] = 0 <=> ~ring_buffer_has_data]_vars
    /\ [](\A r \in Readers :
            (pc[r] \in {"poll_done", "poll_sleep"} /\ ret[r] = 0 /\ ring_buffer_has_data)
                => \/ triggered[r]
                   \/ timer_pc = "wake" /\ r \in wait_queue
                   \/ pc[r] = "poll_sleep" /\ task_state[r] = "RUNNING")

\* a poll pass found the buffer empty and a record was enqueued and
\* signalled afterwards: the caller's entry is triggered
C11_Witness ==
    \E r \in Readers :
        /\ pc[r] = "poll_done"
        /\ ret[r] = 0
        /\ triggered[r]
        /\ ring_buffer_has_data
        /\ timer_pc = "idle"

(***************************************************************************)
(* C12: a read on an O_NONBLOCK handle that finds the buffer empty at its  *)
(* ring_buffer_get returns -EAGAIN: it never enters the wait, is never on  *)
(* the wait queue and never sleeps; none of its steps changes head, tail,  *)
(* the slots or the wait queue, and it has taken no record.  Before the    *)
(* first record is enqueued every such read (with a large enough buffer)   *)
(* returns -EAGAIN.                                                        *)
(***************************************************************************)
C12_NonblockEmptyEagain ==
    /\ [](\A r \in Readers :
            f_nonblock[r] =>
                /\ pc[r] \notin {"cond0", "prepare", "cond", "schedule", "get2_lock", "get2"}
                /\ r \notin wait_queue
                /\ task_state[r] = "RUNNING"
                /\ (pc[r] = "return" /\ ret[r] = -EAGAIN) => taken[r] = 0
                /\ (pc[r] = "return" /\ produced = <<>>) => ret[r] \in {-EAGAIN, -EINVAL})
    /\ [][\A r \in Readers :
            (f_nonblock[r] /\ ReadGet1(r) /\ ring_buffer_is_empty) =>
                /\ pc'[r] = "return"
                /\ ret'[r] = -EAGAIN
                /\ UNCHANGED <<samples, head, tail, wait_queue>>]_vars
    /\ [][\A r \in Readers :
            (ReadLock(r) \/ \E count \in {SampleSize, 4 * SampleSize} : ReadCall(r, count)) =>
                UNCHANGED <<samples, head, tail, wait_queue>>]_vars

\* before the first tick a non-blocking read has returned -EAGAIN while a
\* blocking reader sits on the wait queue
C12_Witness ==
    /\ produced = <<>>
    /\ wait_queue # {}
    /\ \E r \in Readers :
          f_nonblock[r] /\ pc[r] = "return" /\ ret[r] = -EAGAIN /\ taken[r] = 0

(***************************************************************************)
(* C13: a read with count < 16 returns -EINVAL whatever the buffer holds   *)
(* and whatever the mode of the handle: the call goes straight to its      *)
(* return without touching the ring buffer, the lock or the wait queue, so *)
(* it neither sleeps nor takes a record.                                   *)
(***************************************************************************)
C13_ShortBufferEinval ==
    /\ [][\A r \in Readers : \A count \in {0, 8, SampleSize - 1} :
            ReadCall(r, count) =>
                /\ pc'[r] = "return"
                /\ ret'[r] = -EINVAL
                /\ UNCHANGED <<samples, head, tail, lock, wait_queue, task_state,
                               delivered, taken>>]_vars
    /\ [](\A r \in Readers :
            (pc[r] = "return" /\ ret[r] = -EINVAL) =>
                /\ taken[r] = 0
                /\ r \notin wait_queue
                /\ task_state[r] = "RUNNING")

\* a blocking and a non-blocking reader have both been refused with
\* -EINVAL while the buffer holds records
C13_Witness ==
    /\ Count >= 2
    /\ \A r \in Readers : pc[r] = "return" /\ ret[r] = -EINVAL
    /\ \E r \in Readers : f_nonblock[r]
    /\ \E r \in Readers : ~f_nonblock[r]

(***************************************************************************)
(* C14, as stated: a blocking read that sleeps on the empty buffer and is  *)
(* then signalled returns -ERESTARTSYS and takes no record, whatever is    *)
(* enqueued meanwhile.                                                     *)
(***************************************************************************)
C14_SignalledReturnsInterrupted ==
    \A r \in Readers :
        cancelled[r] =>
            /\ pc[r] \notin {"get2_lock", "get2", "copy"}
            /\ taken[r] = 0
            /\ pc[r] = "return" => ret[r] = -ERESTARTSYS

(***************************************************************************)
(* C14, amended: a read that returns -ERESTARTSYS has taken no record, and *)
(* no step of the wait changes head, tail or the slots.  A reader          *)
(* signalled in its sleep returns -ERESTARTSYS when the buffer is still    *)
(* empty at its next test of the condition; when a record has been         *)
(* enqueued by then the condition wins and the read goes on to its second  *)
(* ring_buffer_get, like a read woken by the producer.                     *)
(***************************************************************************)
C14_InterruptedTakesNothing ==
    /\ [](\A r \in Readers :
            (pc[r] = "return" /\ ret[r] = -ERESTARTSYS) =>
                /\ taken[r] = 0
                /\ signal_pending[r]
                /\ r \notin wait_queue)
    /\ [][\A r \in Readers :
            (ReadCond0(r) \/ ReadPrepare(r) \/ ReadCond(r) \/ ReadSchedule(r) \/ Signal(r)) =>
                UNCHANGED <<samples, head, tail, delivered, taken>>]_vars
    /\ [][\A r \in Readers :
            (cancelled[r] /\ ReadCond(r)) =>
                IF ring_buffer_has_data
                THEN pc'[r] = "get2_lock" /\ ret'[r] = ret[r]
                ELSE pc'[r] = "return" /\ ret'[r] = -ERESTARTSYS]_vars

\* a reader signalled in its sleep has returned -ERESTARTSYS; the record
\* enqueued since its last test of the condition is still in the buffer
C14_Witness ==
    \E r \in Readers :
        /\ cancelled[r]
        /\ pc[r] = "return"
        /\ ret[r] = -ERESTARTSYS
        /\ taken[r] = 0
        /\ Len(produced) = 1
        /\ BufferSeq = produced

(***************************************************************************)
(* C15: a read that returns a positive value returns exactly 16 and has    *)
(* taken exactly one record.  The record leaves the buffer in one step,    *)
(* the ring_buffer_get made under the lock: it is the record at tail, tail *)
(* advances by one and nothing else in the ring changes.  When the first   *)
(* ring_buffer_get of a read finds the buffer non-empty the read goes      *)
(* straight to the copy, whatever the mode of the handle, and the copy of  *)
(* 16 bytes ends the call with 16; no call takes a second record, however  *)
(* large its count.                                                        *)
(***************************************************************************)
C15_OneRecordPerRead ==
    /\ [](\A r \in Readers :
            /\ taken[r] <= 1
            /\ (pc[r] = "return" /\ ret[r] > 0) => (ret[r] = SampleSize /\ taken[r] = 1)
            /\ pc[r] = "copy" =>
                  (taken[r] = 1 /\ \E i \in 1 .. Len(delivered) : sample[r] = delivered[i]))
    /\ [][\A r \in Readers :
            ((ReadGet1(r) \/ ReadGet2(r)) /\ ~ring_buffer_is_empty) =>
                /\ pc'[r] = "copy"
                /\ sample'[r] = samples[tail]
                /\ tail' = (tail + 1) % RING_BUFFER_SIZE
                /\ head' = head
                /\ samples' = samples
                /\ BufferSeq' = Tail(BufferSeq)
                /\ delivered' = Append(delivered, Head(BufferSeq))]_vars
    /\ [][delivered' # delivered =>
            /\ Len(delivered') = Len(delivered) + 1
            /\ \E r \in Readers : ReadGet1(r) \/ ReadGet2(r)]_vars
    /\ [][\A r \in Readers :
            ReadCopy(r, FALSE) => (pc'[r] = "return" /\ ret'[r] = SampleSize)]_vars

\* a blocking and a non-blocking reader have each returned 16 with one
\* record while further records stay in the buffer
C15_Witness ==
    /\ Count >= 2
    /\ \A r \in Readers : pc[r] = "return" /\ ret[r] = SampleSize /\ taken[r] = 1
    /\ \E r \in Readers : f_nonblock[r]
    /\ \E r \in Readers : ~f_nonblock[r]
    /\ Len(delivered) = 2

(***************************************************************************)
(* C16, as stated: every tick generates, enqueues and signals, in that     *)
(* order and once each, and at the instant of each signal the record is in *)
(* the buffer: the buffer is non-empty.                                    *)
(***************************************************************************)
C16_SignalFindsData ==
    timer_pc = "wake" =>
        /\ signals = Len(produced) - 1
        /\ timer_sample = produced[Len(produced)]
        /\ ring_buffer_has_data

(***************************************************************************)
(* C16, amended: the callback runs generate, enqueue, wake-up in that      *)
(* order, once each per expiry: the wake-ups issued are the enqueues       *)
(* completed, less the one whose wake-up is due; a wake-up is only issued  *)
(* for a record whose enqueue has completed, and nothing can hold it back. *)
(* At the wake-up the record is in the buffer or has already been taken by *)
(* a reader, so the buffer may be empty.                                   *)
(***************************************************************************)
C16_GenerateEnqueueSignal ==
    /\ [](signals = Len(produced) - (IF timer_pc = "wake" THEN 1 ELSE 0))
    /\ [](timer_pc \in {"put_lock", "put_full", "put_copy"}
            => timer_sample \notin Range(produced))
    /\ [](timer_pc = "wake" =>
            /\ timer_sample = produced[Len(produced)]
            /\ timer_sample \in Range(BufferSeq) \cup Range(delivered)
            /\ ENABLED TimerWake)
    /\ [][timer_pc' # timer_pc =>
            <<timer_pc, timer_pc'>> \in {<<"idle", "put_lock">>, <<"put_lock", "put_full">>,
                                         <<"put_full", "put_copy">>, <<"put_copy", "wake">>,
                                         <<"wake", "idle">>}]_vars
    /\ [][signals' # signals => (TimerWake /\ signals' = signals + 1)]_vars
    /\ [][produced' # produced =>
            (TimerPutCopy /\ produced' = Append(produced, timer_sample))]_vars

\* the callback stands at its wake-up and the buffer is empty: a reader
\* has taken the record it is about to signal
C16_Witness ==
    /\ timer_pc = "wake"
    /\ ring_buffer_is_empty
    /\ delivered # <<>>
    /\ delivered[Len(delivered)] = timer_sample

(***************************************************************************)
(* C17: hrtimer_cancel returns only when no callback is running, and from  *)
(* then on the timer is inactive: once remove is past it, and in           *)
(* particular once remove has returned, no callback starts, no record is   *)
(* enqueued, head and the slots stay as they are and no wake-up is issued  *)
(* by the timer.                                                           *)
(***************************************************************************)
C17_NoTickAfterStop ==
    /\ [](remove_pc \in {"wake", "deregister", "done"} =>
            /\ timer_pc = "idle"
            /\ ~timer_active
            /\ ~ENABLED TimerStep)
    /\ [][remove_pc = "done" =>
            /\ head' = head
            /\ samples' = samples
            /\ produced' = produced
            /\ timer_pc' = "idle"]_vars

\* remove has returned with ticks still to come, and a reader has issued a
\* read since
C17_Witness ==
    /\ remove_pc = "done"
    /\ Len(produced) \in 1 .. MaxTicks - 1
    /\ \E r \in Readers : at_stop[r] = "after" /\ pc[r] = "return"

(***************************************************************************)
(* C18: remove proceeds in one order: hrtimer_cancel, then the wake-up of  *)
(* the sleepers, then misc_deregister and the clearing of simtemp_dev, and *)
(* the device structure is released only after remove has returned.  The   *)
(* wake-up is issued with the timer stopped and the device still           *)
(* registered and allocated, and it makes every queued sleeper runnable;   *)
(* after it no record is enqueued and the timer issues no wake-up.         *)
(***************************************************************************)
C18_TeardownOrder ==
    /\ [][remove_pc' # remove_pc =>
            <<remove_pc, remove_pc'>> \in {<<"none", "cancel">>, <<"cancel", "wake">>,
                                           <<"wake", "deregister">>, <<"deregister", "done">>}]_vars
    /\ [](timer_active => remove_pc \in {"none", "cancel"})
    /\ [](remove_pc \in {"none", "cancel", "wake", "deregister"} =>
            registered /\ simtemp_dev = Dev /\ ~dev_freed)
    /\ [](dev_freed => (~registered /\ simtemp_dev = NULL /\ remove_pc = "done"))
    /\ [][RemoveWake =>
            /\ ~timer_active /\ timer_pc = "idle"
            /\ registered /\ ~dev_freed
            /\ \A r \in wait_queue : task_state'[r] = "RUNNING"]_vars
    /\ [][(remove_pc \in {"deregister", "done"}) =>
            (produced' = produced /\ signals' = signals)]_vars

\* the device structure has been released after a remove whose wake-up
\* found a reader asleep
C18_Witness ==
    /\ dev_freed
    /\ Len(produced) \in 1 .. MaxTicks - 1
    /\ \E r \in Readers : at_stop[r] = "asleep"

(***************************************************************************)
(* C19: remove may be called again after it has returned, with handles     *)
(* still open: the second call does not fault, and it does not work on a   *)
(* device structure that has been released.                                *)
(***************************************************************************)
C19_SecondStopSafe ==
    /\ remove_pc # "oops"
    /\ remove_pc = "again" => ~dev_freed

(***************************************************************************)
(* C20: no read or poll on an open handle touches the device structure     *)
(* after it has been released, and none faults on it.                      *)
(***************************************************************************)
C20_HandleStaysValid ==
    /\ ~uaf
    /\ \A r \in Readers : pc[r] # "oops"

(***************************************************************************)
(* C21: every handle that open returned is bound to the device structure,  *)
(* never to a null pointer, however open interleaves with simtemp_probe.   *)
(***************************************************************************)
C21_OpenBindsDevice ==
    \A r \in Readers : fd_open[r] => private_data[r] = Dev

(***************************************************************************)
(* C22: in every record generated, buffered or handed to a reader, bit 1   *)
(* (THRESHOLD_EXCEEDED) is set exactly when temp_mC > threshold_mC, bit 0  *)
(* (NEW_SAMPLE) is set, and no other bit is.                               *)
(***************************************************************************)
FlagsAsGenerated(x) ==
    /\ BitAnd(x.flags, SIMTEMP_FLAG_NEW_SAMPLE) = SIMTEMP_FLAG_NEW_SAMPLE
    /\ BitAnd(x.flags, SIMTEMP_FLAG_THRESHOLD_EXCEEDED) # 0 <=> x.temp_mC > threshold_mC
    /\ x.flags = BitAnd(x.flags, SIMTEMP_FLAG_NEW_SAMPLE + SIMTEMP_FLAG_THRESHOLD_EXCEEDED)

C22_FlagsFollowThreshold ==
    /\ \A x \in Range(produced) \cup Range(BufferSeq) \cup Range(delivered) :
          FlagsAsGenerated(x)
    /\ timer_pc # "idle" => FlagsAsGenerated(timer_sample)
    /\ \A r \in Readers : pc[r] = "copy" => FlagsAsGenerated(sample[r])

\* the reader has been handed a record at the threshold, with the flag
\* clear, and one above it, with the flag set
C22_Witness ==
    /\ \E i \in 1 .. Len(delivered) :
          delivered[i].temp_mC = threshold_mC /\ delivered[i].flags = SIMTEMP_FLAG_NEW_SAMPLE
    /\ \E i \in 1 .. Len(delivered) :
          /\ delivered[i].temp_mC > threshold_mC
          /\ delivered[i].flags = SIMTEMP_FLAG_NEW_SAMPLE + SIMTEMP_FLAG_THRESHOLD_EXCEEDED
    /\ \E i \in 1 .. Len(delivered) : delivered[i].temp_mC < threshold_mC

(***************************************************************************)
(* C23: every generated temperature lies within the configured variation   *)
(* of the base temperature, for every random word and every configuration  *)
(* the probe accepts.                                                      *)
(***************************************************************************)
C23_TempWithinVariation ==
    \A x \in Range(produced) :
        /\ base_temp_mC - temp_variation_mC <= x.temp_mC
        /\ x.temp_mC <= base_temp_mC + temp_variation_mC

(***************************************************************************)
(* C24: a configuration whose base_temp_mC + temp_variation_mC exceeds the *)
(* signed range is rejected by the probe: no timer is started and the      *)
(* device does not become openable.                                        *)
(***************************************************************************)
C24_InvalidConfigRejected ==
    base_temp_mC + temp_variation_mC > IntMax =>
        /\ ~timer_active
        /\ ~registered
        /\ probe_pc \in {"register", "failed"}

(***************************************************************************)
(* C25: the timestamps of the records a single reader receives, in the     *)
(* order it receives them, are non-decreasing, and so are the timestamps   *)
(* of the records held in the buffer from tail to head, in every state,    *)
(* also after overflow drops.                                              *)
(***************************************************************************)
NonDecreasing(seq) ==
    \A i, j \in 1 .. Len(seq) : i < j => seq[i].timestamp_ns <= seq[j].timestamp_ns

C25_TimestampsNonDecreasing ==
    /\ NonDecreasing(delivered)
    /\ NonDecreasing(BufferSeq)

\* after an overflow drop the reader has received two records with
\* different timestamps and two more are held
C25_Witness ==
    /\ Len(dropped) >= 1
    /\ Len(delivered) >= 2
    /\ delivered[1].timestamp_ns < delivered[Len(delivered)].timestamp_ns
    /\ Count >= 2

(***************************************************************************)
(* C28: the timer is started at time 0.  Every programmed expiry is a      *)
(* whole number k >= 1 of sampling intervals after the start, the first    *)
(* one is one interval after the start, and each re-arming moves the       *)
(* expiry by whole intervals from the previous programmed expiry, to the   *)
(* first such point after the current time, however late the tick was.     *)
(***************************************************************************)
C28_ExpiryOnGrid ==
    /\ [](expires % timer_interval = 0 /\ expires >= timer_interval)
    /\ [](signals = 0 => expires = timer_interval)
    /\ [][expires' # expires =>
            /\ (expires' - expires) % timer_interval = 0
            /\ expires' > now'
            /\ expires' - timer_interval <= now']_vars
    /\ [][(\E delay \in Delays : TimerWakeAt(delay)) => expires' > expires]_vars

\* a tick served late, off the grid, after which the timer has been
\* re-armed beyond the next grid point
C28_Witness ==
    /\ timer_pc = "idle"
    /\ Len(produced) = 1
    /\ produced[1].timestamp_ns % timer_interval # 0
    /\ expires > 2 * timer_interval
    /\ now < expires

(***************************************************************************)
(* C26: ring_buffer_put logs every overflow (one entry of `dropped` per    *)
(* advance of tail by the producer, and none otherwise), and in every      *)
(* state the number of overflows logged is the number of puts less the     *)
(* number of successful gets less the number of records held.              *)
(***************************************************************************)
C26_OverflowAccounting ==
    /\ [](Len(dropped) = Len(produced) - Len(delivered) - Count)
    /\ [][(timer_pc = "put_full" /\ timer_pc' = "put_copy" /\ ring_buffer_is_full)
            => Len(dropped') = Len(dropped) + 1]_vars
    /\ [][Len(dropped') # Len(dropped)
            => /\ timer_pc = "put_full"
               /\ ring_buffer_is_full
               /\ Len(dropped') = Len(dropped) + 1
               /\ tail' = NextIndex(tail)]_vars

\* overflows, successful gets and held records all present
C26_Witness ==
    /\ Len(dropped) >= 2
    /\ Len(delivered) >= 1
    /\ Count >= 1
    /\ Len(produced) = MaxTicks

(***************************************************************************)
(* C27: under fair scheduling, a blocking read by the only reader that     *)
(* finds the buffer empty while the timer still has a tick to deliver      *)
(* calls schedule() only if the buffer is still empty when it tests the    *)
(* condition after queueing itself, and eventually returns 16 bytes        *)
(* holding a generated record.  The end of every tick makes the sleeping   *)
(* reader runnable, a record stored stays until the reader takes it, and   *)
(* the reader's next test of the condition then leads to the get, not to   *)
(* another sleep.                                                          *)
(***************************************************************************)
WaitPcs == {"cond0", "prepare", "cond", "schedule"}

C27_BlockedReadReturnsRecord ==
    /\ (pc[1] \in WaitPcs /\ Len(produced) < MaxTicks)
          ~> (/\ pc[1] = "return"
              /\ ret[1] = SampleSize
              /\ taken[1] = 1
              /\ delivered # <<>>
              /\ delivered[Len(delivered)] \in Range(produced)
              /\ FlagsAsGenerated(delivered[Len(delivered)]))
    /\ [][(pc[1] = "cond" /\ pc'[1] = "schedule") => ring_buffer_is_empty]_vars
    /\ [][(pc[1] = "cond" /\ pc'[1] # "cond" /\ ring_buffer_has_data)
            => pc'[1] = "get2_lock"]_vars
    /\ [][(timer_pc = "wake" /\ timer_pc' = "idle" /\ pc[1] = "schedule")
            => task_state'[1] = "RUNNING"]_vars
    /\ [][(ring_buffer_has_data /\ pc[1] \in WaitPcs \cup {"get2_lock"})
            => ring_buffer_has_data']_vars
    /\ [](pc[1] = "get2" => ring_buffer_has_data)

\* the reader asleep on the empty buffer has been woken by a tick and finds
\* the record when it runs
C27_Witness ==
    /\ pc[1] = "schedule"
    /\ task_state[1] = "RUNNING"
    /\ Len(produced) = 1
    /\ Count = 1
    /\ delivered = <<>>

(***************************************************************************)
(* C29: with a single consumer, from the poll that found the device        *)
(* readable until the consumer's next get the buffer is never empty,       *)
(* whatever the producer does; that get takes a record, and the copy of    *)
(* it returns 16, never -EAGAIN.  A poll that tests an empty buffer, as    *)
(* after the read that took the last record, reports not readable.         *)
(***************************************************************************)
C29_ReadableUntilRead ==
    /\ [](readable[1] => ring_buffer_has_data)
    /\ [][(readable[1] /\ pc[1] \in {"get1", "get2"} /\ pc'[1] # pc[1])
            => (pc'[1] = "copy" /\ taken'[1] = 1 /\ ret'[1] # -EAGAIN)]_vars
    /\ [][ReadCopy(1, FALSE) => ret'[1] = SampleSize]_vars
    /\ [][(pc[1] \in {"poll_check", "poll_final"} /\ pc'[1] # pc[1])
            => IF ring_buffer_is_empty
               THEN ret'[1] = 0 /\ ~readable'[1]
               ELSE ret'[1] = POLLIN_RDNORM /\ readable'[1]]_vars

\* after poll reported readable the producer has dropped records, and the
\* consumer is about to take the only record held
C29_Witness ==
    /\ readable[1]
    /\ pc[1] = "get1"
    /\ Len(dropped) >= 1
    /\ dropped[Len(dropped)].timestamp_ns > 0
    /\ Len(delivered) >= 1

C32_OpenCloseFrame ==
    /\ [][(fd_open' # fd_open)
            => UNCHANGED <<samples, head, tail, lock, config, wait_queue, timer,
                           lifecycle, history>>]_vars
    /\ [](probe_pc = "done" => timer_active)
    /\ []((/\ probe_pc = "done"
           /\ \A r \in Readers : ~fd_open[r]
           /\ timer_pc = "idle"
           /\ Len(produced) < MaxTicks) => ENABLED TimerFire(0, 0))

\* both handles were opened and closed again, records were read meanwhile,
\* and with no handle open a further tick is storing its record
C32_Witness ==
    /\ \A r \in Readers : ~fd_open[r] /\ private_data[r] = Dev
    /\ Len(delivered) >= 1
    /\ Len(produced) >= 2
    /\ timer_pc = "put_copy"
    /\ delivered[Len(delivered)].timestamp_ns < timer_sample.timestamp_ns

StillHeld(x) == x \notin Range(dropped) /\ x \notin Range(delivered)

SlotsFrom(i, n) == [k \in 1 .. n |-> samples[(i + k - 1) % RING_BUFFER_SIZE]]

C36_SecondGetSucceeds ==
    /\ [](pc[1] = "get2" => head # tail)
    /\ [][(pc[1] = "get2" /\ pc'[1] # "get2")
            => (pc'[1] = "copy" /\ taken'[1] = 1 /\ ret'[1] = ret[1])]_vars
    /\ []((pc[1] = "return" /\ ~f_nonblock[1]) => ret[1] # -EAGAIN)

\* the blocking reader holds the lock for the get after its wait, with the
\* one record of the tick that woke it, while the next tick waits for the lock
C36_Witness ==
    /\ pc[1] = "get2"
    /\ ~f_nonblock[1]
    /\ lock = {ReaderCtx(1)}
    /\ (head - tail) % RING_BUFFER_SIZE = 1
    /\ timer_pc = "put_lock"
    /\ Len(delivered) >= 1

(***************************************************************************)
(* C37: a read that returns an error has removed no record from the        *)
(* buffer; a record is removed only by a read that returns 16.             *)
(***************************************************************************)
C37_ErrorReadsTakeNothing ==
    \A r \in Readers :
        pc[r] = "return" => (taken[r] # 0 <=> ret[r] = SampleSize)

C39_ConfigDefaultsAndFrozen ==
    /\ [][\A dt \in DtProps :
            ProbeParse(dt) =>
              /\ sampling_ms' = IF dt.sampling_ms = 0 THEN DefaultSamplingMs
                                 ELSE dt.sampling_ms
              /\ threshold_mC' = IF dt.threshold_mC = 0 THEN DefaultThreshold
                                  ELSE dt.threshold_mC
              /\ base_temp_mC' = IF dt.base_temp_mC = 0 THEN DefaultBaseTemp
                                  ELSE dt.base_temp_mC
              /\ temp_variation_mC' = IF dt.temp_variation_mC = 0 THEN DefaultVariation
                                       ELSE dt.temp_variation_mC]_vars
    /\ [](probe_pc # "parse"
            => (sampling_ms > 0 /\ temp_variation_mC > 0 /\ timer_interval > 0))
    /\ [][probe_pc # "parse" => UNCHANGED config]_vars

\* probed with a supplied threshold and the other properties absent; the
\* device has ticked, been read and is being polled, and the second task
\* has opened and closed it
C39_Witness ==
    /\ probe_pc = "done"
    /\ threshold_mC = DefaultBaseTemp
    /\ sampling_ms = DefaultSamplingMs
    /\ base_temp_mC = DefaultBaseTemp
    /\ temp_variation_mC = DefaultVariation
    /\ Len(delivered) >= 1
    /\ pc[1] = "poll_done"
    /\ ~fd_open[2]
    /\ private_data[2] = Dev

====
